---- MODULE Spec2Model ----
(***************************************************************************)
(* Model of the Figma export client: the on-disk response cache            *)
(* (client/cache.ts), the API client with its 429/transport retry loop     *)
(* (client/figma-api.ts) and the two export orchestrations (the CLI's      *)
(* ImageExporter.exportImages and the MCP tool handler).                   *)
(*                                                                         *)
(* Strings are sequences of UTF-16 code units, so that sort(), join() and  *)
(* parseInt() are computed the way JavaScript computes them.  Optional     *)
(* values are sequences of length 0 or 1.                                  *)
(***************************************************************************)
EXTENDS Integers, Sequences, FiniteSets, TLC

VARIABLES
  files,    \* the cache directory: path (key) -> file content
  now,      \* Date.now()
  ttl,      \* CacheManager.ttl
  call,     \* the FigmaApiClient call in progress (getNodes / getImageUrls)
  exp,      \* the export invocation in progress (CLI or MCP tool)
  ev,       \* what the last CacheManager.get / set observed
  okCalls,  \* <<fileKey, nodeIds>> of the getNodes(useCache) calls that succeeded
  lastSet,  \* query -> the most recent CacheManager.set call made for it
  netFaults,   \* how many more requests the network answers with 429 or drops
  ioFaults,    \* how many more reads or writes of a cache file fail
  invocations, \* how many more tool calls / CLI runs are started
  hierarchy,   \* figma_get_node_info: the document, the parameters, the result
  writers,     \* process -> the writeFileSync it is in the middle of
  naming,      \* sanitizeFileName: the node name and the file name made of it
  printer      \* printNodeTree: the document and the lines printed for it

vars == <<files, now, ttl, call, exp, ev, okCalls, lastSet,
          netFaults, ioFaults, invocations, hierarchy, writers,
          naming, printer>>

\* the state of the export client and of the cache it uses
clientVars == <<files, now, ttl, call, exp, ev, okCalls, lastSet,
                netFaults, ioFaults, invocations>>

\* the environment's budgets
budgets == <<netFaults, ioFaults, invocations>>

----------------------------------------------------------------------------
(* Bounds of the exploration *)

\* CacheManager is constructed with a ttl in 0..MaxTtl (in clock ticks)
MaxTtl == 1
\* the clock runs over 0..MaxTime, far enough for a record of any ttl to expire
MaxTime == MaxTtl + 1
\* the CLI runs / MCP tool calls of one exploration
MaxInvocations == 2
\* the requests the network fails (429 or transport error) in one exploration
MaxNetFaults == 1
\* the cache-file reads and writes that fail in one exploration
MaxIoFaults == 1

----------------------------------------------------------------------------
(* Code units and the strings used as inputs *)

Comma == 44
Colon == 58
Digit0 == 48

\* the file key "F" (parseFileKey only yields [a-zA-Z0-9]+)
FileKeys == { <<70>> }

\* node ids "1:2" and "1:3"
IdA == <<49, 58, 50>>
IdB == <<49, 58, 51>>

\* node-id lists handed to getNodes / exportImages
NodeIdLists == { <<IdA>>, <<IdA, IdB>>, <<IdB, IdA>> }

Range(s) == { s[i] : i \in 1..Len(s) }

----------------------------------------------------------------------------
(* String helpers: JavaScript's default sort order, join and parseInt *)

RECURSIVE StrLess(_, _)
\* a < b in code-unit lexicographic order (the default comparator of sort())
StrLess(a, b) ==
  IF b = <<>> THEN FALSE
  ELSE IF a = <<>> THEN TRUE
  ELSE IF Head(a) # Head(b) THEN Head(a) < Head(b)
  ELSE StrLess(Tail(a), Tail(b))

RECURSIVE Insert(_, _)
\* insert x into the sorted list s, after every element not greater than x
Insert(x, s) ==
  IF s = <<>> THEN <<x>>
  ELSE IF StrLess(x, Head(s)) THEN <<x>> \o s
  ELSE <<Head(s)>> \o Insert(x, Tail(s))

\* a faulty SortIds: the ids are joined in the order given
SortIdsKeepsOrder(ids) == ids

RECURSIVE SortIds(_)
\* [...nodeIds].sort()
SortIds(ids) ==
  IF ids = <<>> THEN <<>>
  ELSE Insert(ids[Len(ids)], SortIds(SubSeq(ids, 1, Len(ids) - 1)))

RECURSIVE Join(_, _)
\* parts.join(sep)
Join(parts, sep) ==
  IF parts = <<>> THEN <<>>
  ELSE IF Len(parts) = 1 THEN parts[1]
  ELSE parts[1] \o sep \o Join(Tail(parts), sep)

RECURSIVE ParseInt(_)
\* Number.parseInt(s, 10) of a string of decimal digits
ParseInt(s) ==
  IF s = <<>> THEN 0
  ELSE 10 * ParseInt(SubSeq(s, 1, Len(s) - 1)) + (s[Len(s)] - Digit0)

----------------------------------------------------------------------------
(* CacheManager (client/cache.ts) *)

\* createHash('sha256').update(content).digest('hex'), taken as collision-free
Sha256Hex(content) == [sha256 |-> content]

\* a faulty generateKey: the file key is left out of the hashed content
generateKeyOfIdsOnly(fileKey, nodeIds) ==
  Sha256Hex(Join(SortIds(nodeIds), <<Comma>>))

\* CacheManager.generateKey
generateKey(fileKey, nodeIds) ==
  Sha256Hex(fileKey \o <<Colon>> \o Join(SortIds(nodeIds), <<Comma>>))

\* JSON.stringify(cached, null, 2): the text of a well-formed record
JSONStringify(cached) == [kind |-> "json", doc |-> <<cached>>]

\* what a failed writeFileSync can leave behind after truncating the file
PartialText == [kind |-> "partial", doc |-> <<>>]

\* JSON.parse(content) throws on text that is not well-formed
JSONParseThrows(content) == content.kind # "json"

JSONParse(content) == content.doc[1]

\* the record CacheManager.set builds
CachedNodeResponse(fileKey, nodeIds, data, t) ==
  [metadata |-> [fileKey |-> fileKey, nodeIds |-> nodeIds,
                 timestamp |-> t, ttl |-> ttl],
   data |-> data]

\* a faulty IsExpired: a record expires one tick early (>= for >)
IsExpiredAtTtl(cached, t) == t - cached.metadata.timestamp >= cached.metadata.ttl

\* a faulty IsExpired: the operands of the subtraction swapped
IsExpiredSwapped(cached, t) == cached.metadata.timestamp - t > cached.metadata.ttl

\* now - cached.metadata.timestamp > cached.metadata.ttl
IsExpired(cached, t) == t - cached.metadata.timestamp > cached.metadata.ttl

\* CacheManager.get: <<>> for null, <<data>> for a hit.  readOk = FALSE is
\* readFileSync throwing.
CacheGetResult(fileKey, nodeIds, readOk) ==
  LET key == generateKey(fileKey, nodeIds) IN
  IF key \notin DOMAIN files THEN <<>>
  ELSE IF ~readOk THEN <<>>
  ELSE IF JSONParseThrows(files[key]) THEN <<>>
  ELSE IF IsExpired(JSONParse(files[key]), now) THEN <<>>
  ELSE << JSONParse(files[key]).data >>

\* the file system after writeFileSync(path, text): "ok" wrote the text,
\* "unchanged" threw before touching the file, "partial" threw after
\* truncating it
WriteOutcomes == {"ok", "unchanged", "partial"}

\* a faulty WriteFile: an existing file is kept (flag 'wx')
WriteFileKeepsExisting(fs, path, text, outcome) ==
  IF outcome = "unchanged" \/ path \in DOMAIN fs THEN fs
  ELSE LET content == IF outcome = "ok" THEN text ELSE PartialText IN
       [p \in DOMAIN fs \cup {path} |-> IF p = path THEN content ELSE fs[p]]

WriteFile(fs, path, text, outcome) ==
  IF outcome = "unchanged" THEN fs
  ELSE LET content == IF outcome = "ok" THEN text ELSE PartialText IN
       [p \in DOMAIN fs \cup {path} |-> IF p = path THEN content ELSE fs[p]]

\* CacheManager.set: the file system it leaves
CacheSetFiles(fileKey, nodeIds, data, outcome) ==
  WriteFile(files, generateKey(fileKey, nodeIds),
            JSONStringify(CachedNodeResponse(fileKey, nodeIds, data, now)),
            outcome)

----------------------------------------------------------------------------
(* HTTP: what one fetch() attempt can produce *)

\* fetchWithRetry(url, maxRetries = 3, retryDelay = 1000)
maxRetries == 3
retryDelay == 1000

\* Retry-After header values: absent, "2", "0"
RetryAfterValues == { <<>>, << <<50>> >>, << <<48>> >> }

Error(message, detail) == [message |-> message, detail |-> detail]

\* errors a fetch() can reject with
TransportErrors == { Error("ECONNRESET", ""), Error("ETIMEDOUT", "") }

MaxRetriesExceeded == Error("Max retries exceeded", "")

\* response.ok
IsOk(status) == status >= 200 /\ status <= 299

\* a response body: json = FALSE makes response.json() throw
Body(json, name, nodes, images, err) ==
  [json |-> json, name |-> name, nodes |-> nodes, images |-> images, err |-> err]

NotJsonBody == Body(FALSE, "", {}, {}, <<>>)
ErrBody == Body(TRUE, "", {}, {}, <<"Not found">>)

\* every id but the last of the list
AllButLast(ids) == Range(SubSeq(ids, 1, Len(ids) - 1))

\* every id but the first of the list
AllButFirst(ids) == Range(Tail(ids))

\* GetNodesResponse bodies the API can send for a request of ids
NodesBodies(ids) ==
  { Body(TRUE, "v1", Range(ids), {}, <<>>),
    Body(TRUE, "v2", AllButLast(ids), {}, <<>>),
    Body(TRUE, "v2", AllButFirst(ids), {}, <<>>) }

\* GetImagesResponse bodies the API can send for a request of ids
ImagesBodies(ids) ==
  { Body(TRUE, "", {}, Range(ids), <<>>),
    Body(TRUE, "", {}, AllButLast(ids), <<>>),
    Body(TRUE, "", {}, AllButFirst(ids), <<>>) }

BodiesFor(op, ids) ==
  (IF op = "getNodes" THEN NodesBodies(ids) ELSE ImagesBodies(ids))
    \cup {ErrBody, NotJsonBody}

Outcome(kind, retryAfter, error, status, body) ==
  [kind |-> kind, retryAfter |-> retryAfter, error |-> error,
   status |-> status, body |-> body]

\* the outcomes of one fetch() for the call in progress
Outcomes(op, ids) ==
  { Outcome("429", h, <<>>, 429, NotJsonBody) : h \in RetryAfterValues }
    \cup { Outcome("throw", <<>>, <<e>>, 0, NotJsonBody) : e \in TransportErrors }
    \cup { Outcome("response", <<>>, <<>>, 200, b) : b \in BodiesFor(op, ids) }
    \cup { Outcome("response", <<>>, <<>>, 500, NotJsonBody) }

----------------------------------------------------------------------------
(* Request headers and console output *)

\* the credential: FigmaApiClient.token, the string "t"
Token == <<116>>

\* a faulty RequestHeaders: only the first attempt carries the credential
RequestHeadersFirstOnly(token, attempt) ==
  IF attempt = 0 THEN { [name |-> "X-FIGMA-TOKEN", value |-> token] } ELSE {}

\* the headers of fetch(url, { headers: { 'X-FIGMA-TOKEN': this.token } }),
\* built anew in every iteration of the loop of fetchWithRetry
RequestHeaders(token, attempt) ==
  { [name |-> "X-FIGMA-TOKEN", value |-> token] }

\* the headers of fetch(url) in downloadImage: none
DownloadHeaders == {}

Request(to, headers) == [to |-> to, headers |-> headers]

\* a line written by console.log / console.warn / console.error: the fixed
\* text and the values interpolated into it
Message(text, args) == [text |-> text, args |-> args]

\* an interpolated value that is a string of the program's input or state
Val(units) == [text |-> "", units |-> units]

\* an interpolated value that is one of the code's own texts (the name or
\* message of an error, 'enabled' / 'disabled')
Lit(text) == [text |-> text, units |-> <<>>]

RECURSIVE Decimal(_)
\* String(n) of a non-negative integer
Decimal(n) ==
  IF n < 10 THEN <<Digit0 + n>>
  ELSE Decimal(n \div 10) \o <<Digit0 + (n % 10)>>

\* s.includes(t)
Includes(s, t) ==
  \E i \in 1..(Len(s) - Len(t) + 1) : SubSeq(s, i, i + Len(t) - 1) = t

----------------------------------------------------------------------------
(* FigmaApiClient (client/figma-api.ts) *)

NoResult == [kind |-> "none", value |-> <<>>, error |-> <<>>]
OkResult(v) == [kind |-> "ok", value |-> <<v>>, error |-> <<>>]
ErrResult(e) == [kind |-> "error", value |-> <<>>, error |-> <<e>>]

NewCall(op, fileKey, nodeIds, useCache) ==
  [op |-> op, fileKey |-> fileKey, nodeIds |-> nodeIds, useCache |-> useCache,
   pc |-> "fetch", attempt |-> 0, requests |-> 0, sleeps |-> <<>>,
   outcomes |-> <<>>, lastError |-> <<>>, response |-> <<>>,
   result |-> NoResult, sent |-> <<>>, log |-> {}, cancelled |-> FALSE]

IdleCall == [NewCall("none", <<>>, <<>>, FALSE) EXCEPT !.pc = "idle"]

NoEvent == [type |-> "none", fileKey |-> <<>>, nodeIds |-> <<>>,
            got |-> <<>>, readOk |-> TRUE, put |-> <<>>, write |-> "",
            log |-> {}]

\* console.error(`Failed to read cache: ${error}`) in the catch of get
ReadLog(fileKey, nodeIds, readOk) ==
  LET key == generateKey(fileKey, nodeIds) IN
  IF key \notin DOMAIN files THEN {}
  ELSE IF ~readOk THEN { Message("Failed to read cache:", <<Lit("EIO")>>) }
  ELSE IF JSONParseThrows(files[key])
       THEN { Message("Failed to read cache:", <<Lit("SyntaxError")>>) }
  ELSE {}

\* console.error(`Failed to write cache: ${error}`) in the catch of set
WriteLog(outcome) ==
  IF outcome = "ok" THEN {}
  ELSE { Message("Failed to write cache:", <<Lit("EIO")>>) }

GetEvent(fileKey, nodeIds, got, readOk) ==
  [NoEvent EXCEPT !.type = "get", !.fileKey = fileKey, !.nodeIds = nodeIds,
                  !.got = got, !.readOk = readOk,
                  !.log = ReadLog(fileKey, nodeIds, readOk)]

SetEvent(fileKey, nodeIds, data, outcome) ==
  [NoEvent EXCEPT !.type = "set", !.fileKey = fileKey, !.nodeIds = nodeIds,
                  !.put = <<data>>, !.write = outcome,
                  !.log = WriteLog(outcome)]

\* the multiset of a list: two lists are permutations of each other iff
\* their bags are equal
BagOf(ids) ==
  [x \in Range(ids) |-> Cardinality({i \in 1..Len(ids) : ids[i] = x})]

\* lastSet after set(fileKey, nodeIds, data) was called: the call is filed
\* under the query it was made for, whatever became of its write
Remember(fileKey, nodeIds, data, outcome) ==
  LET q == <<fileKey, BagOf(nodeIds)>> IN
  [k \in DOMAIN lastSet \cup {q} |->
     IF k = q THEN [data |-> data, at |-> now, nodeIds |-> nodeIds,
                    write |-> outcome, again |-> q \in DOMAIN lastSet]
     ELSE lastSet[k]]

\* a faulty WaitTime: the Retry-After header is not read
WaitTimeIgnoresHeader(retryAfter) == retryDelay

\* const waitTime = retryAfter ? Number.parseInt(retryAfter, 10) * 1000 : retryDelay
WaitTime(retryAfter) ==
  IF retryAfter # <<>> /\ retryAfter[1] # <<>>
  THEN ParseInt(retryAfter[1]) * 1000
  ELSE retryDelay

\* a faulty CatchError: the first error is kept (lastError ||= error)
CatchErrorKeepsFirst(c, error) ==
  IF c.lastError # <<>> THEN c ELSE [c EXCEPT !.lastError = <<error>>]

\* catch (error) { lastError = error ... }
CatchError(c, error) == [c EXCEPT !.lastError = <<error>>]

\* a faulty Exhausted: throw lastError, with no fallback error
ExhaustedThrowsLastError(c) ==
  [c EXCEPT !.pc = "done",
            !.result = ErrResult(IF c.lastError # <<>> THEN c.lastError[1]
                                 ELSE Error("null", ""))]

\* throw lastError || new Error('Max retries exceeded')
Exhausted(c) ==
  [c EXCEPT !.pc = "done",
            !.result = ErrResult(IF c.lastError # <<>> THEN c.lastError[1]
                                 ELSE MaxRetriesExceeded)]

\* readFileSync can throw only where there is a file, and while the
\* environment still has a failure to deal
CanRead(fileKey, nodeIds, readOk) ==
  readOk \/ (ioFaults > 0 /\ generateKey(fileKey, nodeIds) \in DOMAIN files)

\* a faulty GetNodesBegin: the cache is looked up whatever useCache says
GetNodesBeginAlwaysReads(fileKey, nodeIds, useCache, readOk) ==
  LET cached == CacheGetResult(fileKey, nodeIds, readOk)
      c == NewCall("getNodes", fileKey, nodeIds, useCache)
  IN /\ call' = IF cached # <<>>
                THEN [c EXCEPT !.pc = "done", !.result = OkResult(cached[1])]
                ELSE c
     /\ ev' = GetEvent(fileKey, nodeIds, cached, readOk)
     /\ okCalls' = okCalls
     /\ ioFaults' = IF ~readOk THEN ioFaults - 1 ELSE ioFaults
     /\ UNCHANGED <<files, now, ttl, lastSet, netFaults>>

\* getNodes up to its first await: the cache lookup (lines 33-39)
GetNodesBegin(fileKey, nodeIds, useCache, readOk) ==
  LET cached == IF useCache THEN CacheGetResult(fileKey, nodeIds, readOk)
                ELSE <<>>
      c == NewCall("getNodes", fileKey, nodeIds, useCache)
  IN /\ call' = IF cached # <<>>
                THEN [c EXCEPT !.pc = "done", !.result = OkResult(cached[1]),
                               !.log = { Message("Using cached node data", <<>>) }]
                ELSE c
     /\ ev' = IF useCache THEN GetEvent(fileKey, nodeIds, cached, readOk)
              ELSE NoEvent
     /\ okCalls' = IF cached # <<>> THEN okCalls \cup {<<fileKey, nodeIds>>}
                   ELSE okCalls
     /\ ioFaults' = IF useCache /\ ~readOk THEN ioFaults - 1 ELSE ioFaults
     /\ UNCHANGED <<files, now, ttl, lastSet, netFaults>>

\* a faulty HasErr: the err field is not looked at
HasErrNever(data) == FALSE

\* if (data.err)
HasErr(data) == data.err # <<>>

\* the caller's code after fetchWithRetry returned a response:
\* getNodes lines 44-59, getImageUrls lines 75-85
AfterResponse(c, resp, write) ==
  IF ~IsOk(resp.status)
  THEN /\ call' = [c EXCEPT !.pc = "done", !.result = ErrResult(
                      Error(IF c.op = "getNodes" THEN "Failed to fetch nodes"
                            ELSE "Failed to fetch image URLs",
                            ToString(resp.status)))]
       /\ ev' = NoEvent
       /\ UNCHANGED <<files, okCalls, lastSet>>
  ELSE IF ~resp.body.json
  THEN /\ call' = [c EXCEPT !.pc = "done",
                            !.result = ErrResult(Error("SyntaxError", ""))]
       /\ ev' = NoEvent
       /\ UNCHANGED <<files, okCalls, lastSet>>
  ELSE IF HasErr(resp.body)
  THEN /\ call' = [c EXCEPT !.pc = "done", !.result = ErrResult(
                      Error("Figma API error", resp.body.err[1]))]
       /\ ev' = NoEvent
       /\ UNCHANGED <<files, okCalls, lastSet>>
  ELSE /\ call' = [c EXCEPT !.pc = "done", !.result = OkResult(resp.body)]
       /\ IF c.op = "getNodes" /\ c.useCache
          THEN /\ files' = CacheSetFiles(c.fileKey, c.nodeIds, resp.body, write)
               /\ ev' = SetEvent(c.fileKey, c.nodeIds, resp.body, write)
               /\ lastSet' = Remember(c.fileKey, c.nodeIds, resp.body, write)
               /\ okCalls' = okCalls \cup {<<c.fileKey, c.nodeIds>>}
          ELSE /\ ev' = NoEvent
               /\ UNCHANGED <<files, okCalls, lastSet>>

\* one iteration of the loop of fetchWithRetry up to its next await, and,
\* when it returns a response, the caller's code that follows
FetchAttempt ==
  /\ call.pc = "fetch"
  /\ \E o \in Outcomes(call.op, call.nodeIds), write \in WriteOutcomes :
       LET c == [call EXCEPT !.requests = @ + 1,
                             !.outcomes = Append(@, o),
                             !.sent = Append(@, Request(call.op,
                                        RequestHeaders(Token, call.attempt)))]
       IN CASE o.kind = "429" ->
                 /\ netFaults > 0
                 /\ netFaults' = netFaults - 1
                 /\ write = "ok"
                 /\ UNCHANGED ioFaults
                 /\ call' = [c EXCEPT !.pc = "sleep",
                                      !.sleeps = Append(@, WaitTime(o.retryAfter)),
                                      !.log = @ \cup { Message(
                                         "Rate limited. Retrying after",
                                         <<Val(Decimal(WaitTime(o.retryAfter)))>>) }]
                 /\ ev' = NoEvent
                 /\ UNCHANGED <<files, okCalls, lastSet>>
            [] o.kind = "throw" ->
                 /\ netFaults > 0
                 /\ netFaults' = netFaults - 1
                 /\ write = "ok"
                 /\ UNCHANGED ioFaults
                 /\ LET c1 == CatchError(c, o.error[1]) IN
                    call' = IF c.attempt < maxRetries - 1
                            THEN [c1 EXCEPT !.pc = "sleep",
                                            !.sleeps = Append(@, retryDelay)]
                            ELSE Exhausted([c1 EXCEPT !.attempt = @ + 1])
                 /\ ev' = NoEvent
                 /\ UNCHANGED <<files, okCalls, lastSet>>
            [] o.kind = "response" ->
                 /\ UNCHANGED netFaults
                 /\ (write # "ok" =>
                       /\ ioFaults > 0
                       /\ call.op = "getNodes" /\ call.useCache
                       /\ IsOk(o.status) /\ o.body.json /\ ~HasErr(o.body))
                 /\ ioFaults' = IF write = "ok" THEN ioFaults ELSE ioFaults - 1
                 /\ AfterResponse(
                      [c EXCEPT !.response = <<[status |-> o.status,
                                               body |-> o.body]>>],
                      [status |-> o.status, body |-> o.body], write)
  /\ UNCHANGED <<now, ttl, exp, invocations>>
  /\ UNCHANGED <<hierarchy, writers, naming, printer>>

\* a faulty SleepDone: the loop test is attempt <= maxRetries
SleepDoneOneMore ==
  /\ call.pc = "sleep"
  /\ call' = IF call.attempt + 1 <= maxRetries
             THEN [call EXCEPT !.pc = "fetch", !.attempt = @ + 1]
             ELSE Exhausted([call EXCEPT !.attempt = @ + 1])
  /\ ev' = NoEvent
  /\ UNCHANGED <<files, now, ttl, exp, okCalls, lastSet, budgets>>
  /\ UNCHANGED <<hierarchy, writers, naming, printer>>

\* the sleep ends: attempt++ and the loop test; past the last attempt the
\* function throws
SleepDone ==
  /\ call.pc = "sleep"
  /\ call' = IF call.attempt + 1 < maxRetries
             THEN [call EXCEPT !.pc = "fetch", !.attempt = @ + 1]
             ELSE Exhausted([call EXCEPT !.attempt = @ + 1])
  /\ ev' = NoEvent
  /\ UNCHANGED <<files, now, ttl, exp, okCalls, lastSet, budgets>>
  /\ UNCHANGED <<hierarchy, writers, naming, printer>>

----------------------------------------------------------------------------
(* A getNodes call made directly (the MCP tool figma_get_node_info) *)

GetNodeInfo ==
  /\ exp.kind = "none" /\ exp.pc = "idle"
  /\ call.pc = "idle"
  /\ invocations > 0
  /\ invocations' = invocations - 1
  /\ \E f \in FileKeys, ids \in NodeIdLists, useCache \in BOOLEAN,
        readOk \in BOOLEAN :
       /\ (~readOk => useCache /\ CanRead(f, ids, readOk))
       /\ GetNodesBegin(f, ids, useCache, readOk)
  /\ UNCHANGED exp
  /\ UNCHANGED <<hierarchy, writers, naming, printer>>

\* the handler takes the result (or the error) and returns
Return ==
  /\ exp.kind = "none"
  /\ call.pc = "done"
  /\ call' = IdleCall
  /\ ev' = NoEvent
  /\ UNCHANGED <<files, now, ttl, exp, okCalls, lastSet, budgets>>
  /\ UNCHANGED <<hierarchy, writers, naming, printer>>

----------------------------------------------------------------------------
(* Export: ImageExporter.exportImages, called by the CLI and by the MCP     *)
(* tool figma_export_image (FigmaMCPServer.handleExportImage)               *)

NoExport ==
  [kind |-> "none", pc |-> "idle", fileKey |-> <<>>, nodeIds |-> <<>>,
   useCache |-> FALSE, withMetadata |-> FALSE,
   nodesResponse |-> <<>>, imageUrls |-> {}, i |-> 0,
   downloaded |-> <<>>, written |-> {}, skipped |-> {},
   metaCalls |-> <<>>, imageCalls |-> <<>>, exportedFiles |-> <<>>,
   error |-> <<>>, verbose |-> FALSE, fetched |-> <<>>, log |-> {}]

\* the export throws e: the CLI prints the message (and the stack when
\* verbose) and exits 1, the MCP handler answers isError
ExportFailed(e) ==
  [exp EXCEPT !.pc = "failed", !.error = <<e>>,
              !.log = IF exp.kind # "cli" THEN @
                      ELSE @ \cup { Message("Export failed:", <<Lit(e.message), Lit(e.detail)>>) }
                             \cup (IF exp.verbose
                                   THEN { Message("Stack trace:", <<Lit(e.message)>>) }
                                   ELSE {})]

\* the lines of the CLI's verbose configuration output (index.ts 94-107) and
\* the first line of exportImages
BeginLog(kind, fileKey, nodeIds, useCache, withMetadata, verbose) ==
  { Message("Exporting node(s) from Figma...", <<Val(Decimal(Len(nodeIds)))>>) } \cup
  (IF kind = "cli" /\ verbose
   THEN { Message("File Key:", <<Val(fileKey)>>),
          Message("Node IDs:", <<Val(Join(nodeIds, <<Comma, 32>>))>>),
          Message("Cache:", <<Lit(IF useCache THEN "enabled" ELSE "disabled")>>),
          Message("Metadata:", <<Lit(IF withMetadata THEN "yes" ELSE "no")>>) }
   ELSE {})

\* the verbose node hierarchy: one 'Root Node' line per node with data
HierarchyLog(nodeIds, nodes) ==
  { Message("Root Node:", <<Val(nodeIds[j])>>) :
      j \in { k \in 1..Len(nodeIds) : nodeIds[k] \in nodes } }

\* exportImages up to the await of getNodes (lines 36-52)
ExportBegin ==
  /\ exp.kind = "none" /\ exp.pc = "idle"
  /\ call.pc = "idle"
  /\ invocations > 0
  /\ invocations' = invocations - 1
  /\ \E kind \in {"cli", "mcp"}, f \in FileKeys, ids \in NodeIdLists,
        useCache \in BOOLEAN, withMetadata \in BOOLEAN, readOk \in BOOLEAN,
        verbose \in BOOLEAN :
       /\ (verbose => kind = "cli")
       /\ (~readOk => useCache /\ CanRead(f, ids, readOk))
       /\ GetNodesBegin(f, ids, useCache, readOk)
       /\ exp' = [NoExport EXCEPT !.kind = kind, !.pc = "nodes",
                                  !.fileKey = f, !.nodeIds = ids,
                                  !.useCache = useCache,
                                  !.withMetadata = withMetadata,
                                  !.verbose = verbose,
                                  !.log = BeginLog(kind, f, ids, useCache,
                                                   withMetadata, verbose),
                                  !.metaCalls =
                                     IF call'.pc = "fetch" THEN <<ids>> ELSE <<>>]
  /\ UNCHANGED <<hierarchy, writers, naming, printer>>

\* getNodes settled: take nodesResponse and call getImageUrls (lines 52-79)
ExportGotNodes ==
  /\ exp.pc = "nodes"
  /\ call.pc = "done"
  /\ IF call.result.kind = "error"
     THEN /\ exp' = ExportFailed(call.result.error[1])
          /\ call' = IdleCall
     ELSE /\ exp' = [exp EXCEPT !.pc = "urls",
                                !.nodesResponse = call.result.value,
                                !.imageCalls = Append(@, exp.nodeIds),
                                !.log = IF ~exp.verbose THEN @
                                        ELSE @ \cup HierarchyLog(exp.nodeIds,
                                                  call.result.value[1].nodes)]
          /\ call' = NewCall("getImageUrls", exp.fileKey, exp.nodeIds, FALSE)
  /\ ev' = NoEvent
  /\ UNCHANGED <<files, now, ttl, okCalls, lastSet, budgets>>
  /\ UNCHANGED <<hierarchy, writers, naming, printer>>

\* where the export goes once the download loop is over
AfterLoop(e) ==
  IF e.i <= Len(e.nodeIds) THEN e
  ELSE LET d == [e EXCEPT !.log = @ \cup
                    { Message("Exported image(s) to", <<Val(Decimal(Len(e.nodeIds)))>>) }]
       IN IF e.kind = "cli"
          THEN [d EXCEPT !.pc = "done",
                         !.log = @ \cup
                           { Message("Export completed successfully!", <<>>) }]
          ELSE [d EXCEPT !.pc = "collect", !.i = 1]

\* a faulty ExportGotImageUrls: an error of getImageUrls is taken as 'no
\* URL for any node' (catch { imageUrls = {} })
ExportGotImageUrlsSwallows ==
  /\ exp.pc = "urls"
  /\ call.pc = "done"
  /\ exp' = AfterLoop([exp EXCEPT !.pc = "loop", !.i = 1,
                         !.imageUrls = IF call.result.kind = "error" THEN {}
                                       ELSE call.result.value[1].images])
  /\ call' = IdleCall
  /\ ev' = NoEvent
  /\ UNCHANGED <<files, now, ttl, okCalls, lastSet, budgets>>
  /\ UNCHANGED <<hierarchy, writers, naming, printer>>

\* getImageUrls settled: take data.images and enter the loop (lines 74-82)
ExportGotImageUrls ==
  /\ exp.pc = "urls"
  /\ call.pc = "done"
  /\ exp' = IF call.result.kind = "error"
            THEN ExportFailed(call.result.error[1])
            ELSE AfterLoop([exp EXCEPT !.pc = "loop", !.i = 1,
                              !.imageUrls = call.result.value[1].images])
  /\ call' = IdleCall
  /\ ev' = NoEvent
  /\ UNCHANGED <<files, now, ttl, okCalls, lastSet, budgets>>
  /\ UNCHANGED <<hierarchy, writers, naming, printer>>

\* the files one exported node leaves in outputDir
NodeFiles(nodeId, withMetadata) ==
  {<<nodeId, "image">>} \cup
    (IF withMetadata THEN {<<nodeId, "metadata">>} ELSE {})

\* console.warn of a node id that is skipped: the URL is looked at first
SkipLog(e, nodeId) ==
  IF nodeId \notin e.imageUrls
  THEN { Message("No image URL for node", <<Val(nodeId)>>) }
  ELSE { Message("No node data for", <<Val(nodeId)>>) }

\* the 'Saved' lines of a node that was written
SavedLog(e, nodeId) ==
  { Message("Saved:", <<Val(e.fileKey), Val(nodeId)>>) } \cup
  (IF e.withMetadata THEN { Message("Saved metadata:", <<Val(e.fileKey), Val(nodeId)>>) }
   ELSE {})

\* a faulty ExportNode: a node without URL or metadata ends the loop (break)
ExportNodeStopsOnSkip ==
  /\ exp.pc = "loop"
  /\ \E downloadOk \in BOOLEAN :
       LET nodeId == exp.nodeIds[exp.i]
           next == [exp EXCEPT !.i = @ + 1]
       IN IF nodeId \notin exp.imageUrls \/
             nodeId \notin exp.nodesResponse[1].nodes
          THEN /\ downloadOk
               /\ exp' = AfterLoop([next EXCEPT !.i = Len(exp.nodeIds) + 1,
                                                !.skipped = @ \cup {nodeId}])
          ELSE IF ~downloadOk
          THEN exp' = ExportFailed(Error("Failed to download image", "500"))
          ELSE exp' = AfterLoop(
                 [next EXCEPT !.downloaded = Append(@, nodeId),
                              !.written = @ \cup NodeFiles(nodeId, exp.withMetadata)])
  /\ ev' = NoEvent
  /\ UNCHANGED <<files, now, ttl, call, okCalls, lastSet, budgets>>
  /\ UNCHANGED <<hierarchy, writers, naming, printer>>

\* one iteration of the download loop (lines 82-124); downloadOk = FALSE is
\* downloadImage throwing on a non-success status
ExportNode ==
  /\ exp.pc = "loop"
  /\ \E downloadOk \in BOOLEAN :
       LET nodeId == exp.nodeIds[exp.i]
           next == [exp EXCEPT !.i = @ + 1]
           asked == [exp EXCEPT
                       !.fetched = Append(@, Request(nodeId, DownloadHeaders)),
                       !.log = @ \cup { Message("Downloading:",
                                                <<Val(exp.fileKey), Val(nodeId)>>) }]
       IN IF nodeId \notin exp.imageUrls \/
             nodeId \notin exp.nodesResponse[1].nodes
          THEN /\ downloadOk
               /\ exp' = AfterLoop([next EXCEPT !.skipped = @ \cup {nodeId},
                                                !.log = @ \cup SkipLog(exp, nodeId)])
          ELSE IF ~downloadOk
          THEN exp' = [ExportFailed(Error("Failed to download image", "500"))
                         EXCEPT !.fetched = asked.fetched,
                                !.log = @ \cup asked.log]
          ELSE exp' = AfterLoop(
                 [asked EXCEPT !.i = @ + 1,
                               !.downloaded = Append(@, nodeId),
                               !.written = @ \cup NodeFiles(nodeId, exp.withMetadata),
                               !.log = @ \cup SavedLog(exp, nodeId)])
  /\ ev' = NoEvent
  /\ UNCHANGED <<files, now, ttl, call, okCalls, lastSet, budgets>>
  /\ UNCHANGED <<hierarchy, writers, naming, printer>>

\* handleExportImage's loop over nodeIds: the getNodes call of one node
\* (line 634)
ExportCollect ==
  /\ exp.pc = "collect"
  /\ exp.i <= Len(exp.nodeIds)
  /\ call.pc = "idle"
  /\ \E readOk \in BOOLEAN :
       LET ids == << exp.nodeIds[exp.i] >> IN
       /\ (~readOk => exp.useCache /\ CanRead(exp.fileKey, ids, readOk))
       /\ GetNodesBegin(exp.fileKey, ids, exp.useCache, readOk)
       /\ exp' = [exp EXCEPT !.pc = "collected",
                              !.metaCalls =
                                 IF call'.pc = "fetch" THEN Append(@, ids) ELSE @]
  /\ UNCHANGED invocations
  /\ UNCHANGED <<hierarchy, writers, naming, printer>>

\* that getNodes call settled (lines 635-654)
ExportCollected ==
  /\ exp.pc = "collected"
  /\ call.pc = "done"
  /\ LET nodeId == exp.nodeIds[exp.i] IN
     exp' = IF call.result.kind = "error"
            THEN ExportFailed(call.result.error[1])
            ELSE [exp EXCEPT !.pc = "collect", !.i = @ + 1,
                    !.exportedFiles =
                       IF nodeId \in call.result.value[1].nodes
                       THEN Append(@, nodeId) ELSE @]
  /\ call' = IdleCall
  /\ ev' = NoEvent
  /\ UNCHANGED <<files, now, ttl, okCalls, lastSet, budgets>>
  /\ UNCHANGED <<hierarchy, writers, naming, printer>>

\* handleExportImage returns its result
ExportCollectEnd ==
  /\ exp.pc = "collect"
  /\ exp.i > Len(exp.nodeIds)
  /\ exp' = [exp EXCEPT !.pc = "done"]
  /\ ev' = NoEvent
  /\ UNCHANGED <<files, now, ttl, call, okCalls, lastSet, budgets>>
  /\ UNCHANGED <<hierarchy, writers, naming, printer>>

\* the invocation is over (process exit, or the tool result is sent)
ExportEnd ==
  /\ exp.pc \in {"done", "failed"}
  /\ exp' = NoExport
  /\ ev' = NoEvent
  /\ UNCHANGED <<files, now, ttl, call, okCalls, lastSet, budgets>>
  /\ UNCHANGED <<hierarchy, writers, naming, printer>>

----------------------------------------------------------------------------
(* Cancellation of a tool call by the MCP host *)

\* the host cancels the tool call while the client is in a retry sleep: the
\* handler (request) => ... takes no abort signal and sleep() is a bare
\* setTimeout, so nothing in the call changes but the host's wish
Cancel ==
  /\ exp.kind # "cli"
  /\ call.pc = "sleep"
  /\ ~call.cancelled
  /\ call' = [call EXCEPT !.cancelled = TRUE]
  /\ ev' = NoEvent
  /\ UNCHANGED <<files, now, ttl, exp, okCalls, lastSet, budgets>>
  /\ UNCHANGED <<hierarchy, writers, naming, printer>>

----------------------------------------------------------------------------
(* Start-up: new CacheManager() in the CLI action and in the constructor of *)
(* FigmaMCPServer                                                           *)

\* the process has started and has not constructed its CacheManager yet
NotConstructed == [NoExport EXCEPT !.pc = "new"]

\* what mkdirSync throws when the directory cannot be created
MkdirError == Error("EACCES", "mkdir '.cache'")

\* new CacheManager(): ensureCacheDir() runs mkdirSync outside any try, so
\* its error leaves the constructor; the CLI action catches it and exits 1,
\* the MCP server does not start
Construct ==
  /\ exp.pc = "new"
  /\ \E kind \in {"cli", "mcp"}, mkdirOk \in BOOLEAN :
       IF mkdirOk
       THEN /\ exp' = NoExport
            /\ UNCHANGED <<ioFaults, invocations>>
       ELSE /\ ioFaults > 0
            /\ ioFaults' = ioFaults - 1
            /\ invocations' = 0
            /\ exp' = [NoExport EXCEPT !.kind = kind, !.pc = "failed",
                                       !.error = <<MkdirError>>]
  /\ ev' = NoEvent
  /\ UNCHANGED <<files, now, ttl, call, okCalls, lastSet, netFaults>>
  /\ UNCHANGED <<hierarchy, writers, naming, printer>>

----------------------------------------------------------------------------
(* The clock, and CacheManager used on its own *)

Tick ==
  /\ now < MaxTime
  /\ now' = now + 1
  /\ ev' = NoEvent
  /\ UNCHANGED <<files, ttl, call, exp, okCalls, lastSet, budgets>>
  /\ UNCHANGED <<hierarchy, writers, naming, printer>>

\* CacheManager.get(fileKey, nodeIds)
CacheGet ==
  /\ \E f \in FileKeys, ids \in NodeIdLists, readOk \in BOOLEAN :
       /\ CanRead(f, ids, readOk)
       /\ ioFaults' = IF readOk THEN ioFaults ELSE ioFaults - 1
       /\ ev' = GetEvent(f, ids, CacheGetResult(f, ids, readOk), readOk)
  /\ UNCHANGED <<files, now, ttl, call, exp, okCalls, lastSet, netFaults, invocations>>
  /\ UNCHANGED <<hierarchy, writers, naming, printer>>

\* CacheManager.set(fileKey, nodeIds, data)
CacheSet ==
  /\ \E f \in FileKeys, ids \in NodeIdLists, write \in WriteOutcomes :
     \E data \in NodesBodies(ids) :
       /\ (write # "ok" => ioFaults > 0)
       /\ ioFaults' = IF write = "ok" THEN ioFaults ELSE ioFaults - 1
       /\ files' = CacheSetFiles(f, ids, data, write)
       /\ ev' = SetEvent(f, ids, data, write)
       /\ lastSet' = Remember(f, ids, data, write)
  /\ UNCHANGED <<now, ttl, call, exp, okCalls, netFaults, invocations>>
  /\ UNCHANGED <<hierarchy, writers, naming, printer>>

\* how many different queries are stored when CacheManager is called with
\* arguments of any form
MaxQueries == 2

\* file keys handed to CacheManager directly: "F" and "G"
AnyFileKeys == { <<70>>, <<71>> }

\* node-id lists handed to CacheManager directly: [], [""], ["2"], ["1:2"],
\* ["1:2", "2"], ["2", "1:2"] and ["1:2,2"]
AnyNodeIdLists ==
  { <<>>, << <<>> >>, << <<50>> >>, << IdA >>, << IdA, <<50>> >>,
    << <<50>>, IdA >>, << IdA \o <<Comma, 50>> >> }

\* the queries CacheManager is called with: each of these file keys with
\* each of these lists, and the file key "F:1" with ["2"]
AnyQueries ==
  (AnyFileKeys \X AnyNodeIdLists) \cup { << <<70, Colon, 49>>, << <<50>> >> >> }

\* the response of the API to a query: it is named after the file and has
\* the nodes asked for
ResponseOf(fileKey, nodeIds) == Body(TRUE, fileKey, Range(nodeIds), {}, <<>>)

\* CacheManager.get(fileKey, nodeIds) with arguments of any form
CacheGetAny ==
  /\ \E q \in AnyQueries :
       ev' = GetEvent(q[1], q[2], CacheGetResult(q[1], q[2], TRUE), TRUE)
  /\ UNCHANGED <<files, now, ttl, call, exp, okCalls, lastSet, budgets>>
  /\ UNCHANGED <<hierarchy, writers, naming, printer>>

\* CacheManager.set(fileKey, nodeIds, data) with arguments of any form
CacheSetAny ==
  /\ \E q \in AnyQueries :
       LET f == q[1]
           ids == q[2]
       IN /\ \/ <<f, BagOf(ids)>> \in DOMAIN lastSet
             \/ Cardinality(DOMAIN lastSet) < MaxQueries
          /\ files' = CacheSetFiles(f, ids, ResponseOf(f, ids), "ok")
          /\ ev' = SetEvent(f, ids, ResponseOf(f, ids), "ok")
          /\ lastSet' = Remember(f, ids, ResponseOf(f, ids), "ok")
  /\ UNCHANGED <<now, ttl, call, exp, okCalls, budgets>>
  /\ UNCHANGED <<hierarchy, writers, naming, printer>>

----------------------------------------------------------------------------
(* figma_get_node_info: buildNodeHierarchy *)

\* Coordinates are counted in halves, so that Math.round has something to
\* round: 3 is 1.5.

\* the deepest document tree explored (the root is at depth 0)
MaxTreeDepth == 3
\* the largest maxDepth parameter explored; z.number() sets no minimum
MaxMaxDepth == 3

\* Math.round of a number of halves: the nearest integer, a half going up
Round(halves) == (halves + 1) \div 2

BBox(x, y, width, height) == [x |-> x, y |-> y, width |-> width, height |-> height]

\* absoluteBoundingBox: absent, {100, 200, 50, 80}, {110, 210, 10, 10},
\* {1.5, -2.5, 0.5, 1.5}
BBoxes ==
  { <<>>, <<BBox(200, 400, 100, 160)>>, <<BBox(220, 420, 20, 20)>>,
    <<BBox(3, -5, 1, 3)>> }

\* a Node of the document: its id is its path from the root
Node(id, bbox, children) == [id |-> id, bbox |-> bbox, children |-> children]

RECURSIVE Trees(_, _)
\* the document trees of depth up to d whose root has the id path: no
\* child, one child, or two children of which the second is a leaf
Trees(d, path) ==
  { Node(path, b, <<>>) : b \in BBoxes } \cup
  (IF d = 0 THEN {}
   ELSE { Node(path, b, <<k>>) :
            b \in BBoxes \ {<<BBox(3, -5, 1, 3)>>},
            k \in Trees(d - 1, Append(path, 1)) }
        \cup
        { Node(path, <<BBox(200, 400, 100, 160)>>,
               <<k, Node(Append(path, 2), <<BBox(3, -5, 1, 3)>>, <<>>)>>) :
            k \in Trees(d - 1, Append(path, 1)) })

\* a NodeInfo: bounds and children are optional
NodeInfo(id, bounds, children) ==
  [id |-> id, bounds |-> bounds, children |-> children]

RECURSIVE buildNodeHierarchyFromParent(_, _, _, _, _)
\* a faulty buildNodeHierarchy: the children are placed relative to the
\* node itself (the recursive call is given the node's position)
buildNodeHierarchyFromParent(node, origin, depth, maxDepth, includeChildren) ==
  LET bounds ==
        IF node.bbox = <<>> THEN <<>>
        ELSE << BBox(Round(node.bbox[1].x - origin.x),
                     Round(node.bbox[1].y - origin.y),
                     Round(node.bbox[1].width),
                     Round(node.bbox[1].height)) >>
      own == IF node.bbox = <<>> THEN origin
             ELSE [x |-> node.bbox[1].x, y |-> node.bbox[1].y]
  IN IF includeChildren /\ Len(node.children) > 0 /\ depth < maxDepth
     THEN NodeInfo(node.id, bounds,
            << [i \in 1..Len(node.children) |->
                  buildNodeHierarchyFromParent(node.children[i], own, depth + 1,
                                               maxDepth, includeChildren)] >>)
     ELSE NodeInfo(node.id, bounds, <<>>)

RECURSIVE buildNodeHierarchyOneDeeper(_, _, _, _, _)
\* a faulty buildNodeHierarchy: the depth test is depth <= maxDepth
buildNodeHierarchyOneDeeper(node, origin, depth, maxDepth, includeChildren) ==
  LET bounds ==
        IF node.bbox = <<>> THEN <<>>
        ELSE << BBox(Round(node.bbox[1].x - origin.x),
                     Round(node.bbox[1].y - origin.y),
                     Round(node.bbox[1].width),
                     Round(node.bbox[1].height)) >>
  IN IF includeChildren /\ Len(node.children) > 0 /\ depth <= maxDepth
     THEN NodeInfo(node.id, bounds,
            << [i \in 1..Len(node.children) |->
                  buildNodeHierarchyOneDeeper(node.children[i], origin, depth + 1,
                                              maxDepth, includeChildren)] >>)
     ELSE NodeInfo(node.id, bounds, <<>>)

RECURSIVE buildNodeHierarchy(_, _, _, _, _)
\* buildNodeHierarchy(node, origin, depth, maxDepth, includeChildren)
buildNodeHierarchy(node, origin, depth, maxDepth, includeChildren) ==
  LET bounds ==
        IF node.bbox = <<>> THEN <<>>
        ELSE << BBox(Round(node.bbox[1].x - origin.x),
                     Round(node.bbox[1].y - origin.y),
                     Round(node.bbox[1].width),
                     Round(node.bbox[1].height)) >>
  IN IF includeChildren /\ Len(node.children) > 0 /\ depth < maxDepth
     THEN NodeInfo(node.id, bounds,
            << [i \in 1..Len(node.children) |->
                  buildNodeHierarchy(node.children[i], origin, depth + 1,
                                     maxDepth, includeChildren)] >>)
     ELSE NodeInfo(node.id, bounds, <<>>)

\* const origin = rootNode.absoluteBoundingBox ? { x, y } : { x: 0, y: 0 }
OriginOf(rootNode) ==
  IF rootNode.bbox = <<>> THEN [x |-> 0, y |-> 0]
  ELSE [x |-> rootNode.bbox[1].x, y |-> rootNode.bbox[1].y]

\* no document has been received
NoHierarchy == [pc |-> "none"]

\* getNodes has returned the document of a node to handleGetNodeInfo
GotDocument(rootNode, maxDepth, includeChildren) ==
  [pc |-> "document", rootNode |-> rootNode, maxDepth |-> maxDepth,
   includeChildren |-> includeChildren, result |-> <<>>]

\* the loop body of handleGetNodeInfo: the origin, then buildNodeHierarchy
BuildHierarchy ==
  /\ hierarchy.pc = "document"
  /\ hierarchy' =
       [hierarchy EXCEPT
          !.pc = "built",
          !.result = << buildNodeHierarchy(hierarchy.rootNode,
                                           OriginOf(hierarchy.rootNode), 0,
                                           hierarchy.maxDepth,
                                           hierarchy.includeChildren) >>]
  /\ UNCHANGED <<clientVars, writers, naming, printer>>

----------------------------------------------------------------------------
(* Processes sharing the cache directory *)

\* the processes that use one cache directory (a CLI run, the MCP server)
Procs == {1, 2}

\* the set calls one process makes in one exploration
MaxSets == 2

\* a process that is not inside writeFileSync; texts are the <<path, text>>
\* its set calls have written so far
NotWriting == [pc |-> "idle", path |-> <<>>, text |-> <<>>, texts |-> {},
               sets |-> 0]

\* no process is in the middle of a write
NoWriters == [p \in Procs |-> NotWriting]

\* the length of a file, as far as it differs between the records written
\* under one key: the number of node documents in it
TextSize(content) ==
  LET sizes == { Cardinality(content.doc[i].data.nodes) :
                   i \in 1..Len(content.doc) }
  IN IF sizes = {} THEN 0 ELSE CHOOSE n \in sizes : \A m \in sizes : m <= n

\* write(fd, text) at position 0 of a file that holds old: a longer old
\* content keeps its tail, and the file is the text of neither
WriteAtStart(old, text) ==
  IF TextSize(text) >= TextSize(old) THEN text
  ELSE [kind |-> "mixed", doc |-> text.doc \o old.doc]

\* set(fileKey, nodeIds, data) in process p, up to the open of
\* writeFileSync: flag 'w' creates the file or truncates it
SetOpen ==
  /\ \E p \in Procs, f \in FileKeys, ids \in NodeIdLists :
     \E data \in NodesBodies(ids) :
       LET path == generateKey(f, ids)
           text == JSONStringify(CachedNodeResponse(f, ids, data, now))
       IN /\ writers[p].pc = "idle"
          /\ writers[p].sets < MaxSets
          /\ files' = [q \in DOMAIN files \cup {path} |->
                         IF q = path THEN PartialText ELSE files[q]]
          /\ writers' = [writers EXCEPT ![p].pc = "opened",
                                        ![p].path = <<path>>,
                                        ![p].text = <<text>>,
                                        ![p].sets = @ + 1]
          /\ ev' = SetEvent(f, ids, data, "ok")
  /\ UNCHANGED <<now, ttl, call, exp, okCalls, lastSet, budgets, hierarchy>>
  /\ UNCHANGED <<naming, printer>>

\* the write and the close of that writeFileSync
SetWrite ==
  /\ \E p \in Procs :
       LET path == writers[p].path[1]
           text == writers[p].text[1]
       IN /\ writers[p].pc = "opened"
          /\ files' = [files EXCEPT ![path] = WriteAtStart(@, text)]
          /\ writers' = [writers EXCEPT ![p].pc = "idle",
                                        ![p].texts = @ \cup {<<path, text>>}]
  /\ ev' = NoEvent
  /\ UNCHANGED <<now, ttl, call, exp, okCalls, lastSet, budgets, hierarchy>>
  /\ UNCHANGED <<naming, printer>>

----------------------------------------------------------------------------
(* File names: sanitizeFileName *)

\* how many code units a node name adds after its padding
MaxNameTail == 2

\* .substring(0, 50)
MaxFileNameLength == 50

Underscore == 95

\* the characters of /[<>:"/\\|?*]/
InvalidChars == {60, 62, 58, 34, 47, 92, 124, 63, 42}

\* characters that \s matches: space, tab, line feed
Whitespace == {32, 9, 10}

\* upper-case characters: A-Z, and U+0130 whose lower case is two code units
UpperCase == (65..90) \cup {304}

\* the code units node names are made of: a A _ space tab : / U+0130
NameUnits == {97, 65, Underscore, 32, 9, 58, 47, 304}

\* the strings of at most n code units
RECURSIVE Strings(_, _)
Strings(units, n) ==
  IF n = 0 THEN { <<>> }
  ELSE LET shorter == Strings(units, n - 1)
       IN shorter \cup { <<u>> \o t : u \in units,
                                      t \in { t \in shorter : Len(t) = n - 1 } }

\* 'a'.repeat(n)
Repeat(u, n) == [i \in 1..n |-> u]

\* the names a node of the document can have: short ones, and ones whose
\* last characters fall around the 50th
NodeNames ==
  { Repeat(97, k) \o t :
      k \in {0} \cup ((MaxFileNameLength - MaxNameTail)..(MaxFileNameLength + 1)),
      t \in Strings(NameUnits, MaxNameTail) }

\* s.replace(/[set]/g, '_')
ReplaceEach(s, set) ==
  [i \in 1..Len(s) |-> IF s[i] \in set THEN Underscore ELSE s[i]]

\* s.replace(/[set]{min,}/g, '_'): every maximal run of at least min
\* characters of set becomes one underscore
RECURSIVE ReplaceRuns(_, _, _)
ReplaceRuns(s, set, min) ==
  IF s = <<>> THEN <<>>
  ELSE IF Head(s) \notin set
       THEN <<Head(s)>> \o ReplaceRuns(Tail(s), set, min)
       ELSE LET run == CHOOSE n \in 1..Len(s) :
                         /\ \A i \in 1..n : s[i] \in set
                         /\ n = Len(s) \/ s[n + 1] \notin set
                rest == ReplaceRuns(SubSeq(s, run + 1, Len(s)), set, min)
            IN IF run >= min THEN <<Underscore>> \o rest
               ELSE SubSeq(s, 1, run) \o rest

\* s.replace(/^_|_$/g, ''): the match at the start is consumed before the
\* one at the end is looked for
StripUnderscores(s) ==
  LET t == IF s # <<>> /\ Head(s) = Underscore THEN Tail(s) ELSE s
  IN IF t # <<>> /\ t[Len(t)] = Underscore THEN SubSeq(t, 1, Len(t) - 1)
     ELSE t

\* String.prototype.toLowerCase
RECURSIVE ToLowerCase(_)
ToLowerCase(s) ==
  IF s = <<>> THEN <<>>
  ELSE (IF Head(s) \in 65..90 THEN <<Head(s) + 32>>
        ELSE IF Head(s) = 304 THEN <<105, 775>>
        ELSE <<Head(s)>>) \o ToLowerCase(Tail(s))

\* s.substring(0, n)
Substring(s, n) == SubSeq(s, 1, IF Len(s) < n THEN Len(s) ELSE n)

\* ImageExporter.sanitizeFileName and FigmaMCPServer.sanitizeFileName
sanitizeFileName(name) ==
  Substring(
    ToLowerCase(
      StripUnderscores(
        ReplaceRuns(
          ReplaceRuns(ReplaceEach(name, InvalidChars), Whitespace, 1),
          {Underscore}, 2))),
    MaxFileNameLength)

\* no name is being made
NoNaming == [pc |-> "none"]

\* generateFileName has been given the name of a node
GotName(name) == [pc |-> "name", name |-> name, result |-> <<>>]

\* const safeNodeName = this.sanitizeFileName(nodeName)
SanitizeFileName ==
  /\ naming.pc = "name"
  /\ naming' = [naming EXCEPT !.pc = "named",
                              !.result = sanitizeFileName(naming.name)]
  /\ UNCHANGED <<clientVars, hierarchy, writers, printer>>

----------------------------------------------------------------------------
(* Verbose output: printNodeTree *)

\* no document is being printed
NoPrinter == [pc |-> "none"]

\* how many levels the printed documents have below their root
MaxPrintDepth == 3

\* const excludedTypes = [...]
excludedTypes ==
  { "VECTOR", "RECTANGLE", "ELLIPSE", "LINE", "STAR", "BOOLEAN_OPERATION",
    "REGULAR_POLYGON" }

\* Node.type and Node.name: a frame without and with a name ('n'), a node
\* of another type without a name, a node of an excluded type with a name
NodeKinds ==
  { <<"FRAME", <<>>>>, <<"FRAME", <<110>>>>, <<"TEXT", <<>>>>,
    <<"VECTOR", <<110>>>> }

\* '[unnamed]'
Unnamed == <<91, 117, 110, 110, 97, 109, 101, 100, 93>>

\* a Node of the document with its type and name: its id is its path from
\* the root
TypedNode(id, type, name, bbox, children) ==
  [id |-> id, type |-> type, name |-> name, bbox |-> bbox,
   children |-> children]

RECURSIVE TypedTrees(_, _)
\* the documents of depth up to d whose root has the id path: no child, one
\* child, or two children of which the second is a named text leaf; the root
\* may have no bounding box
TypedTrees(d, path) ==
  LET boxes == IF path = <<>> THEN { <<>>, <<BBox(200, 400, 100, 160)>> }
               ELSE { <<BBox(220, 420, 20, 20)>> }
      leaf == TypedNode(Append(path, 2), "TEXT", <<110>>,
                        <<BBox(3, -5, 1, 3)>>, <<>>)
      kids == IF d = 0 THEN { <<>> }
              ELSE { <<>> } \cup
                   { <<k>> : k \in TypedTrees(d - 1, Append(path, 1)) } \cup
                   { <<k, leaf>> : k \in TypedTrees(d - 1, Append(path, 1)) }
  IN { TypedNode(path, kind[1], kind[2], b, c) :
         kind \in NodeKinds, b \in boxes, c \in kids }

\* the concatenation of a sequence of sequences
RECURSIVE Concat(_)
Concat(ss) == IF ss = <<>> THEN <<>> ELSE Head(ss) \o Concat(Tail(ss))

\* console.log(nodeInfo + idInfo + boundsInfo): indent counts the '  '
Line(depth, node, origin) ==
  [indent |-> depth,
   prefix |-> IF depth = 0 THEN "corner" ELSE "tee",
   name |-> IF node.name # <<>> THEN node.name ELSE Unnamed,
   type |-> node.type,
   id |-> node.id,
   bounds |-> IF node.bbox = <<>> THEN <<>>
              ELSE << BBox(Round(node.bbox[1].x - origin.x),
                           Round(node.bbox[1].y - origin.y),
                           Round(node.bbox[1].width),
                           Round(node.bbox[1].height)) >>]

\* one call of printNodeTree and what it printed
Visit(node, depth, line) == [id |-> node.id, depth |-> depth, line |-> line]

RECURSIVE printNodeTreeByTreeDepth(_, _, _)
\* a faulty printNodeTree: the depth grows with every level, printed or not
printNodeTreeByTreeDepth(node, depth, origin) ==
  LET shouldPrint ==
        /\ node.type \notin excludedTypes
        /\ (node.name # <<>> \/ (node.type = "FRAME" /\ depth < 3))
      line == IF shouldPrint THEN << Line(depth, node, origin) >> ELSE <<>>
      nextDepth == depth + 1
  IN << Visit(node, depth, line) >> \o
     Concat([i \in 1..Len(node.children) |->
               printNodeTreeByTreeDepth(node.children[i], nextDepth, origin)])

RECURSIVE printNodeTree(_, _, _)
\* printNodeTree(node, depth, origin): the calls it makes, in order, each
\* with the line it printed
printNodeTree(node, depth, origin) ==
  LET shouldPrint ==
        /\ node.type \notin excludedTypes
        /\ (node.name # <<>> \/ (node.type = "FRAME" /\ depth < 3))
      line == IF shouldPrint THEN << Line(depth, node, origin) >> ELSE <<>>
      nextDepth == IF shouldPrint THEN depth + 1 ELSE depth
  IN << Visit(node, depth, line) >> \o
     Concat([i \in 1..Len(node.children) |->
               printNodeTree(node.children[i], nextDepth, origin)])

\* getNodes has returned the document of a node to a verbose exportImages
GotRootNode(rootNode) ==
  [pc |-> "document", rootNode |-> rootNode, calls |-> <<>>]

\* the lines on the console after the calls, in the order they were printed
ConsoleOf(calls) == Concat([i \in 1..Len(calls) |-> calls[i].line])

\* this.printNodeTree(rootNode, 0, origin)
PrintTree ==
  /\ printer.pc = "document"
  /\ printer' =
       [printer EXCEPT
          !.pc = "printed",
          !.calls = printNodeTree(printer.rootNode, 0,
                                  OriginOf(printer.rootNode))]
  /\ UNCHANGED <<clientVars, hierarchy, writers, naming>>

----------------------------------------------------------------------------
(* Specifications *)

\* the client and its cache at the start: an empty cache directory
StartClient(t, net, io, runs) ==
  /\ files = << >>
  /\ now = 0
  /\ ttl = t
  /\ call = IdleCall
  /\ exp = NoExport
  /\ ev = NoEvent
  /\ okCalls = {}
  /\ lastSet = << >>
  /\ netFaults = net
  /\ ioFaults = io
  /\ invocations = runs

\* the state an exploration of the client starts from
Start(t, net, io, runs) ==
  /\ StartClient(t, net, io, runs)
  /\ hierarchy = NoHierarchy
  /\ writers = NoWriters
  /\ naming = NoNaming
  /\ printer = NoPrinter

\* one invocation of the program: a tool call of the MCP server or a run of
\* the CLI
Next ==
  \/ GetNodeInfo
  \/ FetchAttempt
  \/ SleepDone
  \/ Return
  \/ ExportBegin
  \/ ExportGotNodes
  \/ ExportGotImageUrls
  \/ ExportNode
  \/ ExportCollect
  \/ ExportCollected
  \/ ExportCollectEnd
  \/ ExportEnd

\* one invocation on an empty cache, in which every attempt of a call can
\* fail; new CacheManager() takes the default ttl
Init == Start(MaxTtl, maxRetries, 0, 1)

Spec == Init /\ [][Next]_vars

\* every request and every sleep completes
FairSpec == Spec /\ WF_vars(FetchAttempt) /\ WF_vars(SleepDone)

\* successive getNodes calls on one cache directory as time passes, with
\* failing requests and failing cache files
NextClient ==
  \/ Tick
  \/ GetNodeInfo
  \/ FetchAttempt
  \/ SleepDone
  \/ Return

InitClient == Start(MaxTtl, MaxNetFaults, MaxIoFaults, MaxInvocations)

SpecClient == InitClient /\ [][NextClient]_vars

\* CacheManager as a unit: constructed with any ttl, called in any order
NextCache ==
  \/ Tick
  \/ CacheGet
  \/ CacheSet

InitCache == \E t \in 0..MaxTtl : Start(t, 0, MaxIoFaults, 0)

SpecCache == InitCache /\ [][NextCache]_vars

\* one run of the program from its start, where the cache directory does
\* not exist yet, with failing requests and failing cache I/O
NextRun ==
  \/ Construct
  \/ Next

InitRun ==
  /\ files = << >>
  /\ now = 0
  /\ ttl = MaxTtl
  /\ call = IdleCall
  /\ exp = NotConstructed
  /\ ev = NoEvent
  /\ okCalls = {}
  /\ lastSet = << >>
  /\ netFaults = MaxNetFaults
  /\ ioFaults = MaxIoFaults
  /\ invocations = 1
  /\ hierarchy = NoHierarchy
  /\ writers = NoWriters
  /\ naming = NoNaming
  /\ printer = NoPrinter

SpecRun == InitRun /\ [][NextRun]_vars

\* figma_get_node_info on a document returned by getNodes
NextHierarchy == BuildHierarchy

InitHierarchy ==
  /\ StartClient(MaxTtl, 0, 0, 0)
  /\ writers = NoWriters
  /\ naming = NoNaming
  /\ printer = NoPrinter
  /\ \E rootNode \in Trees(MaxTreeDepth, <<>>),
        maxDepth \in (-1)..MaxMaxDepth, includeChildren \in BOOLEAN :
       hierarchy = GotDocument(rootNode, maxDepth, includeChildren)

SpecHierarchy == InitHierarchy /\ [][NextHierarchy]_vars

\* one invocation that the host may cancel during a retry sleep
NextCancel ==
  \/ Cancel
  \/ Next

SpecCancel == Init /\ [][NextCancel]_vars

\* two processes on one cache directory: their writeFileSync calls are not
\* atomic with respect to each other, a get reads the file as it is
NextShared ==
  \/ SetOpen
  \/ SetWrite
  \/ CacheGet

InitShared == Start(MaxTtl, 0, 0, 0)

SpecShared == InitShared /\ [][NextShared]_vars

\* generateFileName on the name of a node of the document
NextFileName == SanitizeFileName

InitFileName ==
  /\ StartClient(MaxTtl, 0, 0, 0)
  /\ hierarchy = NoHierarchy
  /\ writers = NoWriters
  /\ printer = NoPrinter
  /\ \E name \in NodeNames : naming = GotName(name)

SpecFileName == InitFileName /\ [][NextFileName]_vars

\* the verbose node hierarchy of a document returned by getNodes
NextPrinter == PrintTree

InitPrinter ==
  /\ StartClient(MaxTtl, 0, 0, 0)
  /\ hierarchy = NoHierarchy
  /\ writers = NoWriters
  /\ naming = NoNaming
  /\ \E rootNode \in TypedTrees(MaxPrintDepth, <<>>) :
       printer = GotRootNode(rootNode)

SpecPrinter == InitPrinter /\ [][NextPrinter]_vars

\* CacheManager called with file keys and node-id lists of any form
NextKeys ==
  \/ CacheGetAny
  \/ CacheSetAny

InitKeys == Start(MaxTtl, 0, 0, 0)

SpecKeys == InitKeys /\ [][NextKeys]_vars

----------------------------------------------------------------------------
(* Properties *)

\* the record persisted for the query, when there is a well-formed one
HasRecord(fileKey, nodeIds) ==
  /\ generateKey(fileKey, nodeIds) \in DOMAIN files
  /\ files[generateKey(fileKey, nodeIds)].kind = "json"

RecordOf(fileKey, nodeIds) == files[generateKey(fileKey, nodeIds)].doc[1]

\* the record is within its ttl
WithinTtl(rec) == now - rec.metadata.timestamp <= rec.metadata.ttl

\* this step is the start of a getNodes(useCache = true) call for a query of
\* which a call succeeded before, while the persisted record is within its ttl
C1_LaterCall ==
  /\ call.pc = "idle"
  /\ call'.op = "getNodes"
  /\ call'.useCache
  /\ <<call'.fileKey, call'.nodeIds>> \in okCalls
  /\ HasRecord(call'.fileKey, call'.nodeIds)
  /\ WithinTtl(RecordOf(call'.fileKey, call'.nodeIds))

\* the call is over at once, without a request, with the persisted response
C1_Hit ==
  /\ call'.pc = "done"
  /\ call'.requests = 0
  /\ call'.result = OkResult(RecordOf(call'.fileKey, call'.nodeIds).data)

\* C1 as stated: after a getNodes(fileKey, nodeIds, useCache = true) call
\* has succeeded, every later such call made while the stored record is
\* within its ttl issues no HTTP request and returns the stored response.
C1_LaterCallHitsCache == [][C1_LaterCall => C1_Hit]_vars

\* C1, amended: the same, for the later calls whose read of the cache file
\* does not fail (a failed read is a miss, and the call goes to the API).
C1_LaterCallHitsCacheIfRead == [][C1_LaterCall /\ ev'.readOk => C1_Hit]_vars

\* a second call, at a later time than the record's, was served from the cache
C1_Witness ==
  /\ call.op = "getNodes" /\ call.useCache
  /\ call.pc = "done" /\ call.requests = 0 /\ call.result.kind = "ok"
  /\ invocations <= MaxInvocations - 2
  /\ HasRecord(call.fileKey, call.nodeIds)
  /\ now > RecordOf(call.fileKey, call.nodeIds).metadata.timestamp

\* the milliseconds a 429 with this Retry-After header is to be waited for
HeaderMs(retryAfter) ==
  IF retryAfter = <<>> THEN 1000
  ELSE IF retryAfter[1] = <<50>> THEN 2000
  ELSE IF retryAfter[1] = <<48>> THEN 0
  ELSE -1

\* fetchWithRetry returned a response, and every attempt before got a 429
C2_Case ==
  /\ call.response # <<>>
  /\ \A i \in 1..(Len(call.outcomes) - 1) : call.outcomes[i].kind = "429"

\* C2: when the first k-1 attempts get a 429 and the k-th a response, the
\* client has made exactly k requests (k <= maxRetries), has slept once after
\* each 429, for Retry-After x 1000 ms or for 1000 ms without the header, and
\* returns the k-th response; for [429 Retry-After: 2, 429, 200] it sleeps
\* 2000 ms, then 1000 ms, and returns the 200 after 3 requests.
C2_RetryAfter429 ==
  C2_Case =>
    LET k == Len(call.outcomes) IN
    /\ k <= maxRetries
    /\ call.requests = k
    /\ Len(call.sleeps) = k - 1
    /\ \A i \in 1..(k - 1) :
         call.sleeps[i] = HeaderMs(call.outcomes[i].retryAfter)
    /\ call.outcomes[k].kind = "response"
    /\ call.response[1] = [status |-> call.outcomes[k].status,
                           body |-> call.outcomes[k].body]
    /\ (/\ k = 3
        /\ call.outcomes[1].retryAfter = << <<50>> >>
        /\ call.outcomes[2].retryAfter = <<>>
        => call.sleeps = <<2000, 1000>> /\ call.requests = 3)

\* [429 Retry-After: 2, 429 without the header, 200]
C2_Witness ==
  /\ C2_Case
  /\ Len(call.outcomes) = 3
  /\ call.outcomes[1].retryAfter = << <<50>> >>
  /\ call.outcomes[2].retryAfter = <<>>
  /\ call.response[1].status = 200
  /\ call.result.kind = "ok"

\* every attempt of the call so far ended this way
AllOutcomes(kind) ==
  \A i \in 1..Len(call.outcomes) : call.outcomes[i].kind = kind

\* C3: when each of the maxRetries attempts of a getNodes or getImageUrls
\* call gets a 429, the call makes exactly maxRetries requests, no response
\* reaches the caller, and it fails with the max-retries error.
C3_RateLimitExhausted ==
  Len(call.outcomes) >= maxRetries /\ AllOutcomes("429") =>
    /\ call.requests = maxRetries
    /\ call.pc \in {"sleep", "done"}
    /\ call.response = <<>>
    /\ call.result.kind # "ok"
    /\ (call.pc = "done" => call.result = ErrResult(MaxRetriesExceeded))

\* an image-URL fetch failed after three 429s
C3_Witness ==
  /\ call.op = "getImageUrls"
  /\ call.pc = "done"
  /\ Len(call.outcomes) = maxRetries /\ AllOutcomes("429")
  /\ call.result = ErrResult(MaxRetriesExceeded)

\* C4: when every attempt ends in a transport failure, the client makes
\* exactly maxRetries attempts, 1000 ms apart, and fails with the error of
\* the last attempt.
C4_TransportExhausted ==
  Len(call.outcomes) >= maxRetries /\ AllOutcomes("throw") =>
    /\ call.requests = maxRetries
    /\ call.pc = "done"
    /\ call.sleeps = <<1000, 1000>>
    /\ call.result = ErrResult(call.outcomes[maxRetries].error[1])

\* three transport failures, the last one different from the first
C4_Witness ==
  /\ call.pc = "done"
  /\ Len(call.outcomes) = maxRetries /\ AllOutcomes("throw")
  /\ call.outcomes[1].error # call.outcomes[maxRetries].error
  /\ call.result.kind = "error"

\* fetchWithRetry has been entered by the call in progress and has ended
FetchEnded ==
  /\ call.pc = "done"
  /\ ~(call.result.kind = "ok" /\ call.response = <<>>)

C5_Requests ==
  /\ call.requests <= maxRetries
  /\ (FetchEnded => call.requests >= 1)

\* C5: whatever the outcomes of the attempts, one fetchWithRetry call issues
\* at least 1 and at most maxRetries requests and then ends, with a response
\* or with an error, provided each request and each sleep completes.
C5_BoundedAndTerminates ==
  /\ []C5_Requests
  /\ (call.pc \in {"fetch", "sleep"}) ~> FetchEnded

\* a call ended by an error after maxRetries requests of mixed outcomes
C5_Witness ==
  /\ FetchEnded
  /\ call.requests = maxRetries
  /\ call.outcomes[1].kind = "429"
  /\ call.outcomes[2].kind = "throw"

\* C6 as stated: an export of n node ids sends its node-metadata request
\* and its image-URL request as one call each, carrying all n ids; the
\* number of metadata calls does not grow with n.
C6_OneBatchedCallEach ==
  exp.kind # "none" =>
    /\ Len(exp.metaCalls) <= 1
    /\ Len(exp.imageCalls) <= 1
    /\ \A i \in 1..Len(exp.metaCalls) : exp.metaCalls[i] = exp.nodeIds
    /\ \A i \in 1..Len(exp.imageCalls) : exp.imageCalls[i] = exp.nodeIds

\* the last set call made for the query of the get just made
LastSetFor(e) == lastSet[<<e.fileKey, BagOf(e.nodeIds)>>]

\* a get was just made for a query a set was made for, within the ttl of
\* that set
GetAfterSet ==
  /\ ev.type = "get"
  /\ <<ev.fileKey, BagOf(ev.nodeIds)>> \in DOMAIN lastSet
  /\ now - LastSetFor(ev).at <= ttl

\* two lists that are permutations of each other give one key
PermutationsShareKey ==
  \A f \in FileKeys, ids1 \in NodeIdLists, ids2 \in NodeIdLists :
    BagOf(ids1) = BagOf(ids2) => generateKey(f, ids1) = generateKey(f, ids2)

\* C7 as stated: permutations of a node-id list give the same key, so set
\* with one ordering followed by get with the other, within the ttl,
\* returns the stored response.
C7_PermutationHits ==
  /\ PermutationsShareKey
  /\ (GetAfterSet /\ LastSetFor(ev).nodeIds # ev.nodeIds
        => ev.got = << LastSetFor(ev).data >>)

\* C7, amended: the same, when the write of that set and the read of this
\* get did not fail.
C7_PermutationHitsIfIo ==
  /\ PermutationsShareKey
  /\ (GetAfterSet /\ LastSetFor(ev).nodeIds # ev.nodeIds
        /\ LastSetFor(ev).write = "ok" /\ ev.readOk
        => ev.got = << LastSetFor(ev).data >>)

\* a get that hit the record a set with the other ordering wrote
C7_Witness ==
  /\ GetAfterSet
  /\ LastSetFor(ev).nodeIds # ev.nodeIds
  /\ Len(ev.nodeIds) = 2
  /\ ev.got = << LastSetFor(ev).data >>

\* C8 as stated: get within the ttl returns the response of the most recent
\* set made for the key; each set overwrites the record before it.
C8_GetReturnsLastSet ==
  GetAfterSet => ev.got = << LastSetFor(ev).data >>

\* C8, amended: the same, when the write of that most recent set and the
\* read of this get did not fail.
C8_GetReturnsLastSetIfIo ==
  GetAfterSet /\ LastSetFor(ev).write = "ok" /\ ev.readOk
    => ev.got = << LastSetFor(ev).data >>

\* a get returned "v2", which the second set made for the query wrote, at a
\* later time than that set
C8_Witness ==
  /\ GetAfterSet
  /\ LastSetFor(ev).again
  /\ LastSetFor(ev).write = "ok" /\ ev.readOk
  /\ ev.got # <<>>
  /\ ev.got[1].name = "v2"
  /\ now > LastSetFor(ev).at

\* C9: get returns a response only while now - timestamp <= ttl of the
\* record; once now - timestamp > ttl it returns absent; and get leaves the
\* persisted records as they are.
C9_TtlBoundsHits ==
  [][ev'.type = "get" =>
       /\ files' = files
       /\ (ev'.got # <<>> =>
             /\ HasRecord(ev'.fileKey, ev'.nodeIds)
             /\ WithinTtl(RecordOf(ev'.fileKey, ev'.nodeIds))
             /\ ev'.got = << RecordOf(ev'.fileKey, ev'.nodeIds).data >>)
       /\ (/\ HasRecord(ev'.fileKey, ev'.nodeIds)
           /\ ~WithinTtl(RecordOf(ev'.fileKey, ev'.nodeIds))
           => ev'.got = <<>>)]_vars

\* a get found the file of an expired record and returned absent
C9_Witness ==
  /\ ev.type = "get" /\ ev.readOk
  /\ HasRecord(ev.fileKey, ev.nodeIds)
  /\ ~WithinTtl(RecordOf(ev.fileKey, ev.nodeIds))
  /\ ev.got = <<>>

\* this step is getNodes receiving a response that is a failure: a status
\* that is not a success (and not 429), or a body with err set
C10_FailureResponse ==
  /\ call.pc = "fetch"
  /\ call.op = "getNodes"
  /\ call'.response # <<>>
  /\ \/ ~(call'.response[1].status \in 200..299)
     \/ (call'.response[1].body.json /\ call'.response[1].body.err # <<>>)

\* C10: on such a response getNodes fails at once, with no further attempt
\* and no cache write: the cache files are what they were before.
C10_FailureLeavesCache ==
  [][C10_FailureResponse =>
       /\ call'.pc = "done"
       /\ call'.result.kind = "error"
       /\ call'.requests = call.requests + 1
       /\ files' = files
       /\ ev'.type # "set"]_vars

\* a getNodes(useCache) call failed on an err body over a non-empty cache
C10_Witness ==
  /\ call.op = "getNodes" /\ call.useCache
  /\ call.pc = "done"
  /\ call.response # <<>>
  /\ call.response[1].body.err # <<>>
  /\ call.result.kind = "error"
  /\ DOMAIN files # {}

\* a getNodes(useCache = false) call is in progress or has just ended
C11_Uncached == call.op = "getNodes" /\ ~call.useCache

\* C11: getNodes with useCache = false neither reads nor writes the cache:
\* the call always issues an HTTP request (it never ends without one, even
\* over a fresh record of its query), no get or set is made for it, and
\* every step of the call leaves the cache files as they were.
C11_UncachedBypassesCache ==
  [][/\ (call'.op = "getNodes" /\ ~call'.useCache =>
            /\ files' = files
            /\ ev'.type = "none"
            /\ (call.pc = "idle" => call'.pc = "fetch")
            /\ (call'.pc = "done" => call'.requests >= 1))
     /\ (C11_Uncached /\ call' # call => files' = files /\ ev'.type = "none")
    ]_vars

\* an uncached call got its response from the API although a fresh record
\* of the same query, with another response, was in the cache
C11_Witness ==
  /\ C11_Uncached
  /\ call.pc = "done" /\ call.result.kind = "ok" /\ call.requests >= 1
  /\ HasRecord(call.fileKey, call.nodeIds)
  /\ WithinTtl(RecordOf(call.fileKey, call.nodeIds))
  /\ RecordOf(call.fileKey, call.nodeIds).data # call.result.value[1]

\* a read or a parse failure of get is a miss: the call goes to the API
C12_ReadFailureIsMiss ==
  /\ ev.type = "get"
  /\ \/ ~ev.readOk
     \/ /\ generateKey(ev.fileKey, ev.nodeIds) \in DOMAIN files
        /\ files[generateKey(ev.fileKey, ev.nodeIds)].kind # "json"
  => call.pc = "fetch" /\ call.result.kind = "none"

\* a write failure of set drops the write; the call returns the response
C12_WriteFailureIsDropped ==
  ev.type = "set" /\ ev.write # "ok"
  => call.pc = "done" /\ call.result = OkResult(ev.put[1])

\* no getNodes call and no export has failed with an error of the cache
C12_NoCacheError ==
  /\ (call.result.kind = "error" => call.result.error[1] # MkdirError)
  /\ (exp.pc = "failed" => exp.error[1] # MkdirError)

\* C12 as stated: no cache I/O failure is fatal: a failure to create the
\* cache directory, to read or parse a record or to write one never makes
\* getNodes or an export fail; a read or parse failure is a miss followed
\* by a fetch, a write failure drops the write and the response is returned.
C12_CacheFailureNotFatal ==
  /\ C12_NoCacheError
  /\ C12_ReadFailureIsMiss
  /\ C12_WriteFailureIsDropped

\* the node id the download loop is at has no image URL or no metadata
C13_Missing ==
  /\ exp.pc = "loop"
  /\ \/ exp.nodeIds[exp.i] \notin exp.imageUrls
     \/ exp.nodeIds[exp.i] \notin exp.nodesResponse[1].nodes

\* the download loop of the export is over, and no download failed
C13_LoopOver == exp.kind # "none" /\ exp.pc \in {"collect", "collected", "done"}

\* C13: in exportImages a node id without an image URL, or without an entry
\* in the metadata response, is skipped: no file is written for it, the
\* export does not fail on it, and the loop goes on to the next node id, so
\* that at the end of the loop every node id was either skipped or written.
C13_SkipsAndGoesOn ==
  /\ [][C13_Missing =>
          /\ exp'.pc # "failed"
          /\ exp'.written = exp.written
          /\ exp'.downloaded = exp.downloaded
          /\ exp'.skipped = exp.skipped \cup {exp.nodeIds[exp.i]}
          /\ (exp.i < Len(exp.nodeIds) =>
                exp'.pc = "loop" /\ exp'.i = exp.i + 1)]_vars
  /\ [](C13_LoopOver =>
          \A j \in 1..Len(exp.nodeIds) :
            LET id == exp.nodeIds[j] IN
            IF id \in exp.imageUrls /\ id \in exp.nodesResponse[1].nodes
            THEN <<id, "image">> \in exp.written /\ id \notin exp.skipped
            ELSE /\ id \in exp.skipped
                 /\ \A kind \in {"image", "metadata"} :
                      <<id, kind>> \notin exp.written)

\* the first node id had no URL and was skipped, the second was written
C13_Witness ==
  /\ C13_LoopOver
  /\ Len(exp.nodeIds) = 2
  /\ exp.nodeIds[1] \notin exp.imageUrls
  /\ exp.nodeIds[1] \in exp.skipped
  /\ exp.downloaded = << exp.nodeIds[2] >>
  /\ <<exp.nodeIds[2], "image">> \in exp.written

\* the export has ended on a failed download
C14_DownloadFailed ==
  /\ exp.pc = "failed"
  /\ exp.error[1].message = "Failed to download image"

\* C14 as stated: a failed downloadImage is confined to its node: every
\* node id later in the list that has a URL and metadata is still downloaded
\* and written.
C14_DownloadFailureConfined ==
  C14_DownloadFailed =>
    \A j \in (exp.i + 1)..Len(exp.nodeIds) :
      LET id == exp.nodeIds[j] IN
      id \in exp.imageUrls /\ id \in exp.nodesResponse[1].nodes
        => id \in Range(exp.downloaded) /\ <<id, "image">> \in exp.written

\* which whole-batch fetch the export is waiting for
C15_Waiting == exp.pc \in {"nodes", "urls"}

\* C15: in every export the node-metadata fetch has completed before the
\* image-URL request is issued, and the image-URL fetch has completed before
\* any download starts; when either fetch fails the export fails with that
\* error, with no image downloaded and no image or metadata file written.
C15_FetchesThenDownloads ==
  /\ [](exp.kind # "none" =>
          /\ (exp.imageCalls # <<>> \/ call.op = "getImageUrls"
                => exp.nodesResponse # <<>>)
          /\ (exp.pc = "nodes" => exp.imageCalls = <<>>)
          /\ (exp.downloaded # <<>> \/ exp.written # {} \/ exp.pc = "loop"
                => /\ exp.imageCalls # <<>>
                   /\ call.op # "getImageUrls"
                   /\ exp.i >= 1)
          /\ (C15_Waiting => exp.downloaded = <<>> /\ exp.written = {})
          /\ (exp.pc = "failed" /\ exp.i = 0
                => exp.downloaded = <<>> /\ exp.written = {}))
  /\ [][C15_Waiting /\ call.pc = "done" /\ call.result.kind = "error"
          /\ exp' # exp
          => /\ exp'.pc = "failed"
             /\ exp'.error = call.result.error
             /\ exp'.downloaded = <<>>
             /\ exp'.written = {}]_vars

\* the metadata fetch succeeded, the image-URL fetch failed after its
\* retries, and the export failed with that error and no download
C15_Witness ==
  /\ exp.pc = "failed"
  /\ exp.nodesResponse # <<>>
  /\ exp.imageCalls # <<>>
  /\ exp.i = 0
  /\ exp.error = <<MaxRetriesExceeded>>
  /\ exp.downloaded = <<>> /\ exp.written = {}

\* every value interpolated into a line of console output so far
C16_Logged ==
  UNION { Range(m.args) : m \in call.log \cup exp.log \cup ev.log }

\* C16: every attempt of a node-metadata or image-URL request, the first and
\* each retry, carries the credential in a request header; no downloadImage
\* request to a render URL carries it; and it is in no logged message.
C16_CredentialOnlyInApiHeaders ==
  /\ Len(call.sent) = call.requests
  /\ \A i \in 1..Len(call.sent) :
       /\ call.sent[i].to \in {"getNodes", "getImageUrls"}
       /\ \E h \in call.sent[i].headers : h.value = Token
  /\ \A i \in 1..Len(exp.fetched) :
       \A h \in exp.fetched[i].headers : h.value # Token
  /\ Len(exp.fetched) >= Len(exp.downloaded)
  /\ \A a \in C16_Logged : ~Includes(a.units, Token)

\* an export that has downloaded an image is in the third attempt of a
\* request, after a 429 and a transport error, with lines logged
C16_Witness ==
  /\ exp.fetched # <<>>
  /\ call.requests = maxRetries
  /\ call.outcomes[1].kind = "429"
  /\ call.outcomes[2].kind = "throw"
  /\ call.log # {} /\ exp.log # {}

RECURSIVE NodesOf(_)
\* the ids of the nodes of a document tree, or of a NodeInfo tree (whose
\* children, when present, are wrapped)
NodesOf(t) ==
  LET kids == IF "bbox" \in DOMAIN t THEN t.children
              ELSE IF t.children = <<>> THEN <<>> ELSE t.children[1]
  IN {t.id} \cup UNION { NodesOf(kids[i]) : i \in 1..Len(kids) }

RECURSIVE Find(_, _)
\* the node (or NodeInfo) of id, the path from the root, in the tree t
Find(t, id) ==
  IF id = <<>> THEN t
  ELSE LET kids == IF "bbox" \in DOMAIN t THEN t.children ELSE t.children[1]
       IN Find(kids[Head(id)], Tail(id))

\* n is Math.round of the number of halves h: n - 1/2 <= h/2 < n + 1/2
IsRounded(n, h) == 2 * n - 1 <= h /\ h < 2 * n + 1

\* the hierarchy built from the document, once it is built
C17_Built == hierarchy.pc = "built"

\* C17: every node of the result whose source node has a bounding box, at
\* any depth, has the bounds x = bbox.x - origin.x, y = bbox.y - origin.y,
\* width and height, rounded, where origin is the position of the root (so
\* the root is at (0,0), and no bounds depend on the parent's position); a
\* node without a bounding box has no bounds.
C17_BoundsRelativeToRoot ==
  C17_Built =>
    LET root == hierarchy.rootNode
        out == hierarchy.result[1]
        ox == IF root.bbox = <<>> THEN 0 ELSE root.bbox[1].x
        oy == IF root.bbox = <<>> THEN 0 ELSE root.bbox[1].y
    IN /\ (root.bbox # <<>> =>
             out.bounds # <<>> /\ out.bounds[1].x = 0 /\ out.bounds[1].y = 0)
       /\ \A id \in NodesOf(out) :
            LET src == Find(root, id)
                info == Find(out, id)
            IN IF src.bbox = <<>> THEN info.bounds = <<>>
               ELSE /\ info.bounds # <<>>
                    /\ IsRounded(info.bounds[1].x, src.bbox[1].x - ox)
                    /\ IsRounded(info.bounds[1].y, src.bbox[1].y - oy)
                    /\ IsRounded(info.bounds[1].width, src.bbox[1].width)
                    /\ IsRounded(info.bounds[1].height, src.bbox[1].height)

\* the example of the specification with a grandchild added: the root at
\* {100, 200, 50, 80}, its child at {110, 210, 10, 10} with bounds
\* {10, 10, 10, 10}, and a grandchild at {1.5, -2.5} with bounds relative to
\* the root, not to the child
C17_Witness ==
  /\ C17_Built
  /\ hierarchy.rootNode.bbox = <<BBox(200, 400, 100, 160)>>
  /\ hierarchy.result[1].bounds = <<BBox(0, 0, 50, 80)>>
  /\ <<1, 1>> \in NodesOf(hierarchy.result[1])
  /\ Find(hierarchy.result[1], <<1>>).bounds = <<BBox(10, 10, 10, 10)>>
  /\ Find(hierarchy.rootNode, <<1, 1>>).bbox = <<BBox(3, -5, 1, 3)>>
  /\ Find(hierarchy.result[1], <<1, 1>>).bounds = <<BBox(-98, -202, 1, 2)>>

RECURSIVE InSourceOrder(_, _)
\* the NodeInfo at path has the id path, its children, when the key is
\* present, are a non-empty list, and the same holds below it
InSourceOrder(info, path) ==
  /\ info.id = path
  /\ (info.children # <<>> =>
        /\ Len(info.children[1]) > 0
        /\ \A i \in 1..Len(info.children[1]) :
             InSourceOrder(info.children[1][i], Append(path, i)))

C19_Stored == UNION { writers[p].texts : p \in Procs }

\* the paths a step of a set call is made on
C19_Touched ==
  { writers'[p].path[1] : p \in { q \in Procs : writers'[q].pc = "opened" } }
    \cup { writers[p].path[1] : p \in { q \in Procs : writers[q].pc = "opened" } }

\* C19 as stated: the cache storage tolerates concurrent use: a set for one
\* key leaves the records of the other keys as they are; once concurrent
\* sets for one key are over, the file holds the record of one of them; and
\* a get made at any time returns absent or a response that a set stored in
\* full.
C19_ToleratesConcurrentUse ==
  /\ [][\A q \in DOMAIN files \ C19_Touched :
          q \in DOMAIN files' /\ files'[q] = files[q]]_vars
  /\ []((\A p \in Procs : writers[p].pc = "idle") =>
          \A q \in DOMAIN files : <<q, files[q]>> \in C19_Stored)
  /\ [](ev.type = "get" /\ ev.got # <<>> =>
          \E t \in C19_Stored : t[2].doc[1].data = ev.got[1])

\* the error a cancelled call is to end with
C20_CancellationError == Error("AbortError", "")

\* C20 as stated: when the host cancels a call that is in a retry sleep,
\* the sleep is interrupted, the call ends with a cancellation error, and
\* no further HTTP attempt is made for it.
C20_CancelStopsRetry ==
  [][call.cancelled /\ call' # IdleCall =>
       /\ call'.requests = call.requests
       /\ call'.pc \in {"sleep", "done"}
       /\ (call'.pc = "done" =>
             call'.result = ErrResult(C20_CancellationError))]_vars

----------------------------------------------------------------------------
(* C21: the file name made of a node name *)

\* a name that sanitizeFileName has returned
C21_Named == naming.pc = "named"

\* C21: sanitizeFileName returns, for every node name, a string of at most
\* 50 characters that is lowercase, contains no invalid filesystem character
\* and no whitespace, contains no run of two or more underscores, and neither
\* begins nor ends with an underscore.
C21_SafeFileName ==
  C21_Named =>
    LET r == naming.result
    IN /\ Len(r) <= MaxFileNameLength
       /\ \A i \in 1..Len(r) : r[i] \notin UpperCase
       /\ \A i \in 1..Len(r) : r[i] \notin InvalidChars
       /\ \A i \in 1..Len(r) : r[i] \notin Whitespace
       /\ \A i \in 1..(Len(r) - 1) :
            ~(r[i] = Underscore /\ r[i + 1] = Underscore)
       /\ r # <<>> => r[1] # Underscore /\ r[Len(r)] # Underscore

----------------------------------------------------------------------------
(* C22: the verbose node hierarchy *)

RECURSIVE PreOrder(_)
\* the ids of the nodes of a document, parents before children, children in
\* the order of the source
PreOrder(t) ==
  <<t.id>> \o Concat([i \in 1..Len(t.children) |-> PreOrder(t.children[i])])

\* the document has been printed
C22_Printed == printer.pc = "printed"

\* the node of id has a line on the console
C22_HasLine(id) ==
  \E i \in 1..Len(printer.calls) :
    printer.calls[i].id = id /\ printer.calls[i].line # <<>>

\* the proper ancestors of the node of id that have a line on the console
C22_PrintedAncestors(id) ==
  { k \in 0..(Len(id) - 1) : C22_HasLine(SubSeq(id, 1, k)) }

\* C22: in printNodeTree every node of the tree is visited once in source
\* order whether or not its ancestors were printed; a node is printed iff its
\* type is not one of the excluded shape types and (its name is non-empty or
\* it is a FRAME whose display depth is below 3); and the display depth used
\* to indent a printed node equals the number of its proper ancestors that
\* were printed.
C22_PrintsFilteredTree ==
  C22_Printed =>
    LET root == printer.rootNode
        out == ConsoleOf(printer.calls)
    IN /\ [i \in 1..Len(printer.calls) |-> printer.calls[i].id] = PreOrder(root)
       /\ \A i, j \in 1..Len(out) : out[i].id = out[j].id => i = j
       /\ \A i \in 1..(Len(out) - 1) :
            \E a \in 1..Len(printer.calls) :
              /\ printer.calls[a].id = out[i].id
              /\ \E b \in (a + 1)..Len(printer.calls) :
                   printer.calls[b].id = out[i + 1].id
       /\ \A i \in 1..Len(printer.calls) :
            LET id == printer.calls[i].id
                node == Find(root, id)
                shown == Cardinality(C22_PrintedAncestors(id))
            IN /\ C22_HasLine(id) <=>
                    /\ node.type \notin
                         { "VECTOR", "RECTANGLE", "ELLIPSE", "LINE", "STAR",
                           "BOOLEAN_OPERATION", "REGULAR_POLYGON" }
                    /\ (node.name # <<>> \/ (node.type = "FRAME" /\ shown < 3))
       /\ \A i \in 1..Len(out) :
            out[i].indent = Cardinality(C22_PrintedAncestors(out[i].id))

\* a named frame is printed, its vector child is not, the vector's named
\* child is indented by one, that child's unnamed frame child, three levels
\* down, is printed with an indent of two, and the sibling is visited last
C22_Witness ==
  /\ C22_Printed
  /\ Find(printer.rootNode, <<>>).type = "FRAME"
  /\ Len(printer.rootNode.children) = 1
  /\ Find(printer.rootNode, <<1>>).type = "VECTOR"
  /\ Len(Find(printer.rootNode, <<1>>).children) = 2
  /\ Len(Find(printer.rootNode, <<1, 1>>).children) = 1
  /\ Find(printer.rootNode, <<1, 1, 1>>).type = "FRAME"
  /\ Find(printer.rootNode, <<1, 1, 1>>).name = <<>>
  /\ LET out == ConsoleOf(printer.calls)
     IN [i \in 1..Len(out) |-> <<out[i].id, out[i].indent>>]
          = << <<<<>>, 0>>, <<<<1, 1>>, 1>>, <<<<1, 1, 1>>, 2>>, <<<<1, 2>>, 1>> >>
  /\ printer.calls[Len(printer.calls)].id = <<1, 2>>

----------------------------------------------------------------------------
(* C23: the error of an exhausted call *)

\* the call has used up its attempts and has failed
C23_Exhausted ==
  /\ call.op \in {"getNodes", "getImageUrls"}
  /\ call.pc = "done"
  /\ call.response = <<>>
  /\ Len(call.outcomes) = maxRetries

\* C23: whenever the retry budget of a metadata or image-URL fetch is
\* exhausted and the final attempt received HTTP 429, the call fails with
\* the rate-limit-exceeded error, also when an earlier attempt of the same
\* call ended in a transport failure; the error of an earlier attempt is
\* never reported in place of the final attempt's outcome.
C23_FinalOutcomeReported ==
  C23_Exhausted =>
    LET final == call.outcomes[maxRetries]
    IN /\ final.kind = "429" => call.result = ErrResult(MaxRetriesExceeded)
       /\ final.kind = "throw" => call.result = ErrResult(final.error[1])

----------------------------------------------------------------------------
(* C25: the sleeps of one call *)

\* C25: fetchWithRetry sleeps only between attempts: after the final
\* (maxRetries-th) attempt it fails without sleeping, whether that attempt
\* ended in HTTP 429 or in a transport failure, so one call sleeps at most
\* maxRetries - 1 times.
C25_SleepsOnlyBetweenAttempts ==
  /\ call.pc = "sleep" => call.requests < maxRetries
  /\ Len(call.sleeps) <= maxRetries - 1

----------------------------------------------------------------------------
(* C24: the files listed in the result of figma_export_image *)

\* handleExportImage has returned its result
C24_Succeeded == exp.kind = "mcp" /\ exp.pc = "done"

\* C24: in the result of a successful figma_export_image call, every entry
\* of exportedFiles names an image file (and, with withMetadata, a metadata
\* file) that this export wrote: a node that the export skipped because it
\* had no image URL or no metadata is not listed.
C24_ListsWrittenFiles ==
  C24_Succeeded =>
    \A j \in 1..Len(exp.exportedFiles) :
      LET nodeId == exp.exportedFiles[j]
      IN /\ <<nodeId, "image">> \in exp.written
         /\ exp.withMetadata => <<nodeId, "metadata">> \in exp.written
         /\ nodeId \notin exp.skipped

----------------------------------------------------------------------------
(* C26: one query is never served the response of another *)

\* the file key has no ':' and no node id of the list has a ','
C26_Plain(fileKey, ids) ==
  /\ \A i \in 1..Len(fileKey) : fileKey[i] # Colon
  /\ \A id \in ids : \A i \in 1..Len(id) : id[i] # Comma

\* every set and get call so far was made with such arguments
C26_PlainCalls ==
  /\ ev.type # "none" => C26_Plain(ev.fileKey, Range(ev.nodeIds))
  /\ \A q \in DOMAIN lastSet : C26_Plain(q[1], DOMAIN q[2])

\* the get call just made returned the response that a set call stored for
\* the same file key and a permutation of the same node ids
C26_OwnResponse ==
  \E q \in DOMAIN lastSet :
    /\ q[1] = ev.fileKey
    /\ DOMAIN q[2] = Range(ev.nodeIds)
    /\ \A x \in DOMAIN q[2] :
         q[2][x] = Cardinality({ i \in 1..Len(ev.nodeIds) : ev.nodeIds[i] = x })
    /\ lastSet[q].data = ev.got[1]

C26_NonEmptyLists ==
  /\ ev.type # "none" => ev.nodeIds # <<>>
  /\ \A q \in DOMAIN lastSet : DOMAIN q[2] # {}

\* without the condition on ':' and ',' a get is served another query's
\* response: "F:1" with ["2"] and "F" with ["1:2"] hash the same content
C26_AnyArguments ==
  ev.type = "get" /\ ev.got # <<>> /\ C26_NonEmptyLists => C26_OwnResponse

====
